---- MODULE Spec2Model ----
(***************************************************************************)
(* Model of the two NestJS sample services of nest-http-request-response:  *)
(*   user-profile-api : UsersController.getProfile / UsersService.findOne  *)
(*   order-api        : ValidationPipe + CreateOrderDTO,                   *)
(*                      OrdersController.createOrder,                      *)
(*                      OrdersService.createOrder                          *)
(*                                                                         *)
(* JavaScript values are tagged so that a number, a string, an array and   *)
(* undefined are never confused.  A JavaScript object is the sequence of   *)
(* its own [key, value] entries in property (insertion) order.  String     *)
(* literals of the source written in Japanese are romanised.               *)
(***************************************************************************)
EXTENDS Integers, Sequences, FiniteSets, TLC

VARIABLES
  users,       \* UsersService.users
  req,         \* the request or call being served by the user-profile-api
  upc,         \* its position: "start", "done" ("off" when none is served)
  fieldArray,  \* the field list handed to UsersService.findOne
  resp,        \* its response
  orders,      \* OrdersService.orders
  currentId,   \* OrdersService.currentId
  now,         \* the clock read by new Date()
  rq           \* the POST /orders requests in flight, one per slot

uvars == <<users, req, upc, fieldArray, resp>>

ovars == <<orders, currentId, now, rq>>

vars == <<users, req, upc, fieldArray, resp, orders, currentId, now, rq>>

----------------------------------------------------------------------------
(* JavaScript values *)

Num(n) == [num |-> n]
Str(s) == [str |-> s]
Arr(a) == [arr |-> a]
Native(f) == [native |-> f]
Undefined == [undef |-> TRUE]

(* Properties every plain object inherits from Object.prototype. *)
ObjectPrototype ==
  {"constructor", "hasOwnProperty", "isPrototypeOf", "propertyIsEnumerable",
   "toLocaleString", "toString", "valueOf", "__proto__"}

Range(s) == {s[i] : i \in 1..Len(s)}

OwnKeys(obj) == [i \in 1..Len(obj) |-> obj[i][1]]

HasOwn(obj, k) == \E i \in 1..Len(obj) : obj[i][1] = k

(* key in obj : own property or one found on the prototype chain *)
In(k, obj) == HasOwn(obj, k) \/ k \in ObjectPrototype

(* obj[key] *)
Get(obj, k) ==
  IF HasOwn(obj, k)
    THEN obj[CHOOSE i \in 1..Len(obj) : obj[i][1] = k][2]
    ELSE IF k \in ObjectPrototype THEN Native(k) ELSE Undefined

(* Put with a re-assigned key deleted and added again at the end *)
Put_MoveToEnd(obj, k, v) ==
  Append(SelectSeq(obj, LAMBDA e : e[1] # k), <<k, v>>)

(* Put that never looks for an existing key *)
Put_AlwaysAppend(obj, k, v) == Append(obj, <<k, v>>)

(* CreateDataProperty: an existing key keeps its position and takes the new *)
(* value, a new key is appended.                                            *)
Put(obj, k, v) ==
  IF HasOwn(obj, k)
    THEN [i \in 1..Len(obj) |-> IF obj[i][1] = k THEN <<k, v>> ELSE obj[i]]
    ELSE Append(obj, <<k, v>>)

RECURSIVE FromEntriesInto(_, _, _)
FromEntriesInto(obj, entries, i) ==
  IF i > Len(entries) THEN obj
  ELSE FromEntriesInto(Put(obj, entries[i][1], entries[i][2]), entries, i + 1)

(* Object.fromEntries(entries) *)
FromEntries(entries) == FromEntriesInto(<<>>, entries, 1)

----------------------------------------------------------------------------
(* user-profile-api : UsersService *)

UsersInit ==
  << << <<"id", Num(1)>>,
        <<"name", Str("Tanaka Taro")>>,
        <<"email", Str("tanaka@example.com")>>,
        <<"age", Num(30)>>,
        <<"preferences", Arr(<<Str("reading"), Str("movies")>>)>> >> >>

(* find whose predicate is true of every user (user.id = id with a non-zero id) *)
FindIndex_First(us, id) == IF Len(us) > 0 /\ id # 0 THEN 1 ELSE 0

(* this.users.find((user) => user.id === id) : index of the first match, 0 if none *)
FindIndex(us, id) ==
  IF \E i \in 1..Len(us) : Get(us[i], "id") = Num(id)
    THEN CHOOSE i \in 1..Len(us) :
           /\ Get(us[i], "id") = Num(id)
           /\ \A j \in 1..(i - 1) : Get(us[j], "id") # Num(id)
    ELSE 0

NotFoundMessage(id) == "ID: " \o ToString(id) \o " no user ga mitsukarimasen"

NotFoundException(id) == [status |-> 404, message |-> NotFoundMessage(id)]

(* fields.filter((field) => field in user).map((field) => [field, user[field]]) *)
PickEntries(user, fields) ==
  LET kept == SelectSeq(fields, LAMBDA f : In(f, user))
  IN  [i \in 1..Len(kept) |-> <<kept[i], Get(user, kept[i])>>]

findOne(us, id, fields) ==
  LET i == FindIndex(us, id)
  IN  IF i = 0 THEN NotFoundException(id)
      ELSE IF Len(fields) > 0
        THEN [status |-> 200, body |-> FromEntries(PickEntries(us[i], fields))]
        ELSE [status |-> 200, body |-> us[i]]

----------------------------------------------------------------------------
(* user-profile-api : UsersController *)

validFields == {"id", "name", "email", "age", "preferences"}

(* A string is the sequence of its pieces; "," is the separator character. *)
RECURSIVE SplitFrom(_, _, _, _)
SplitFrom(s, i, cur, out) ==
  IF i > Len(s) THEN Append(out, cur)
  ELSE IF s[i] = "," THEN SplitFrom(s, i + 1, "", Append(out, cur))
  ELSE SplitFrom(s, i + 1, cur \o s[i], out)

(* fields.split(',') *)
Split(s) == SplitFrom(s, 1, "", <<>>)

(* fields ? fields.split(',').filter(validFields.has) : [] *)
FieldArrayOf(query) ==
  IF "sel" \in DOMAIN query /\ Len(query.sel) > 0
    THEN SelectSeq(Split(query.sel), LAMBDA f : f \in validFields)
    ELSE <<>>

Digits == {"0", "1", "2", "9"}

DigitVal(c) == CASE c = "0" -> 0 [] c = "1" -> 1 [] c = "2" -> 2 [] c = "9" -> 9

(* ParseIntPipe.isNumeric : /^-?\d+$/ *)
IsNumeric(s) ==
  LET body == IF Len(s) > 0 /\ s[1] = "-" THEN Tail(s) ELSE s
  IN  Len(body) > 0 /\ \A i \in 1..Len(body) : body[i] \in Digits

RECURSIVE DecimalOf(_, _, _)
DecimalOf(s, i, acc) ==
  IF i > Len(s) THEN acc ELSE DecimalOf(s, i + 1, acc * 10 + DigitVal(s[i]))

(* parseInt(value, 10) of a numeric string *)
ParseInt(s) ==
  IF s[1] = "-" THEN 0 - DecimalOf(Tail(s), 1, 0) ELSE DecimalOf(s, 1, 0)

BadRequestNumeric ==
  [status |-> 400, message |-> "Validation failed (numeric string is expected)"]

----------------------------------------------------------------------------
(* order-api : CreateOrderDTO checked by the global ValidationPipe *)

IsArray(v) == "arr" \in DOMAIN v

ArrayMinSize(v, n) == IsArray(v) /\ Len(v.arr) >= n

IsNumber(v) == "num" \in DOMAIN v

(* Min that only checks the type *)
Min_TypeOnly(v, n) == IsNumber(v)

Min(v, n) == IsNumber(v) /\ v.num >= n

IsString(v) == "str" \in DOMAIN v

(* The decorated properties in declaration order; the decorators of one    *)
(* property run bottom-up, the order the 400 response lists their messages. *)
CreateOrderDTO ==
  << [property |-> "products", rules |-> <<"arrayMinSize", "isArray">>],
     [property |-> "quantity", rules |-> <<"min", "isNumber">>],
     [property |-> "shipping_address", rules |-> <<"isString">>] >>

Holds(rule, v) ==
  CASE rule = "isArray" -> IsArray(v)
    [] rule = "arrayMinSize" -> ArrayMinSize(v, 1)
    [] rule = "isNumber" -> IsNumber(v)
    [] rule = "min" -> Min(v, 1)
    [] rule = "isString" -> IsString(v)

ConstraintMessage(property, rule) ==
  CASE rule = "arrayMinSize" -> "shouhin wo 1tsu ijou sentaku shite kudasai"
    [] rule = "min" -> "suuryou wa 1 ijou de shitei shite kudasai"
    [] rule = "isArray" -> property \o " must be an array"
    [] rule = "isNumber" ->
         property \o " must be a number conforming to the specified constraints"
    [] rule = "isString" -> property \o " must be a string"

(* validate that stops at the first property with a failed rule *)
Validate_StopAtFirst(body) ==
  LET all == [i \in 1..Len(CreateOrderDTO) |->
                [property |-> CreateOrderDTO[i].property,
                 constraints |->
                   SelectSeq(CreateOrderDTO[i].rules,
                             LAMBDA c : ~Holds(c, body[CreateOrderDTO[i].property]))]]
      failed == SelectSeq(all, LAMBDA e : e.constraints # <<>>)
  IN  IF failed = <<>> THEN <<>> ELSE <<failed[1]>>

(* validate(object) : one ValidationError per property with a failed rule *)
Validate(body) ==
  LET all == [i \in 1..Len(CreateOrderDTO) |->
                [property |-> CreateOrderDTO[i].property,
                 constraints |->
                   SelectSeq(CreateOrderDTO[i].rules,
                             LAMBDA c : ~Holds(c, body[CreateOrderDTO[i].property]))]]
  IN  SelectSeq(all, LAMBDA e : e.constraints # <<>>)

RECURSIVE Flatten(_, _)
Flatten(errors, i) ==
  IF i > Len(errors) THEN <<>>
  ELSE [j \in 1..Len(errors[i].constraints) |->
          ConstraintMessage(errors[i].property, errors[i].constraints[j])]
       \o Flatten(errors, i + 1)

(* ValidationPipe's exception: every message of every ValidationError *)
BadRequestException(errors) ==
  [status |-> 400, error |-> "Bad Request", message |-> Flatten(errors, 1)]

----------------------------------------------------------------------------
(* order-api : OrdersService and OrdersController *)

(* this.currentId read without the increment *)
NextId_Same(c) == c

(* ++this.currentId *)
NextId(c) == c + 1

(* the order literal with the whole dto spread into it *)
NewOrder_Spread(dto, id, date) ==
  [id |-> id,
   products |-> dto.products,
   quantity |-> dto.quantity,
   shipping_address |-> dto.shipping_address,
   extra |-> dto.extra,
   total_amount |-> Num(dto.quantity.num * 1000),
   created_at |-> [date |-> date]]

(* the order literal built by createOrder *)
NewOrder(dto, id, date) ==
  [id |-> id,
   products |-> dto.products,
   quantity |-> dto.quantity,
   shipping_address |-> dto.shipping_address,
   total_amount |-> Num(dto.quantity.num * 1000),
   created_at |-> [date |-> date]]

(* this.orders = [order] *)
Push_Replace(os, order) == <<order>>

(* this.orders.push(order) *)
Push(os, order) == Append(os, order)

(* the object OrdersController.createOrder returns, sent with status 201 *)
Created(order) ==
  [status |-> 201,
   body |-> [order_id |-> order.id,
             total_amount |-> order.total_amount,
             message |-> "chuumon ga kanryou shimashita"]]

None == [none |-> TRUE]

Idle == [pc |-> "idle", body |-> None, errors |-> <<>>, order |-> None, response |-> None]

----------------------------------------------------------------------------
(* Bounds and inputs of the user-profile-api *)

MaxFields == 3
MaxSelLen == 3
MaxReqs == 3
MaxClock == 1

Slots == 1..MaxReqs

(* private orders: Order[] = []; private currentId = 0 *)
StoreInit == /\ orders = <<>>
             /\ currentId = 0
             /\ now = 0

RequestNames == validFields \cup {"nickname", "toString"}

SelAtoms == validFields \cup {"foo", "toString", ","}

SeqsUpTo(S, n) == UNION {[1..k -> S] : k \in 0..n}

IdParams ==
  { <<"1">>, <<"0", "1">>, <<"2">>, <<"9", "9", "9">>, <<"-", "1">>,
    <<"1", "x">>, <<"a">>, <<>> }

ServiceIds == {1, 2, 999, -1}

Absent == [absent |-> TRUE]

Queries == {Absent} \cup {[sel |-> s] : s \in SeqsUpTo(SelAtoms, MaxSelLen)}

HttpRequests == {[via |-> "http", idParam |-> p, query |-> q] : p \in IdParams, q \in Queries}

ServiceCalls ==
  {[via |-> "service", id |-> i, fields |-> f] :
     i \in ServiceIds, f \in SeqsUpTo(RequestNames, MaxFields)}

NoResp == [status |-> 0]

UInit ==
  /\ StoreInit
  /\ rq = [r \in Slots |-> Idle]
  /\ users = UsersInit
  /\ req \in HttpRequests \cup ServiceCalls
  /\ upc = "start"
  /\ fieldArray = <<>>
  /\ resp = NoResp

(* @Param('id', ParseIntPipe) rejects a non-numeric path parameter *)
ParseIntPipeReject ==
  /\ upc = "start" /\ req.via = "http"
  /\ ~IsNumeric(req.idParam)
  /\ upc' = "done"
  /\ resp' = BadRequestNumeric
  /\ UNCHANGED <<users, req, fieldArray>>
  /\ UNCHANGED ovars

(* UsersController.getProfile with the parsed id *)
getProfile ==
  /\ upc = "start" /\ req.via = "http"
  /\ IsNumeric(req.idParam)
  /\ fieldArray' = FieldArrayOf(req.query)
  /\ resp' = findOne(users, ParseInt(req.idParam), fieldArray')
  /\ upc' = "done"
  /\ UNCHANGED <<users, req>>
  /\ UNCHANGED ovars

(* UsersService.findOne called directly *)
findOneCall ==
  /\ upc = "start" /\ req.via = "service"
  /\ fieldArray' = req.fields
  /\ resp' = findOne(users, req.id, req.fields)
  /\ upc' = "done"
  /\ UNCHANGED <<users, req>>
  /\ UNCHANGED ovars

UNext == ParseIntPipeReject \/ getProfile \/ findOneCall

SpecUsers == UInit /\ [][UNext]_vars

----------------------------------------------------------------------------
(* Inputs of the order-api *)

ProductsVals ==
  {Undefined, Arr(<<>>), Arr(<<Num(1)>>), Arr(<<Num(1), Num(2), Num(3)>>),
   Arr(<<Str("a")>>), Str("invalid")}

QuantityVals == {Undefined, Num(-1), Num(0), Num(1), Num(2), Str("2")}

AddressVals == {Undefined, Str("X"), Str(""), Num(5)}

ExtraVals == {Undefined, Str("admin")}

Bodies ==
  [products : ProductsVals, quantity : QuantityVals,
   shipping_address : AddressVals, extra : ExtraVals]

Body(p, q, a, e) == [products |-> p, quantity |-> q, shipping_address |-> a, extra |-> e]

(* the bodies sent by the concurrent clients *)
ClientBodies ==
  {Body(Arr(<<Num(1), Num(2), Num(3)>>), Num(2), Str("X"), Undefined),
   Body(Arr(<<Num(1)>>), Num(1), Str("X"), Str("admin")),
   Body(Arr(<<>>), Num(2), Str("X"), Undefined),
   Body(Arr(<<Num(1)>>), Num(0), Str("X"), Undefined),
   Body(Str("invalid"), Undefined, Num(5), Undefined)}

UOff == /\ users = UsersInit
        /\ req = [via |-> "none"]
        /\ upc = "off"
        /\ fieldArray = <<>>
        /\ resp = [status |-> 0]

(* a fresh process: empty store, no request received yet *)
OInit == /\ UOff
         /\ StoreInit
         /\ rq = [r \in Slots |-> Idle]

(* a fresh process whose first request, with any body, has just arrived *)
OInitOne ==
  /\ UOff
  /\ StoreInit
  /\ \E b \in Bodies :
       rq = [r \in Slots |-> IF r = 1 THEN [Idle EXCEPT !.pc = "pipe", !.body = b]
                                      ELSE Idle]

(* POST /orders arrives with a parsed JSON body *)
Receive(r, b) ==
  /\ rq[r].pc = "idle"
  /\ rq' = [rq EXCEPT ![r] = [Idle EXCEPT !.pc = "pipe", !.body = b]]
  /\ UNCHANGED <<orders, currentId, now>>
  /\ UNCHANGED uvars

(* ValidationPipe.transform finds violations: 400, the handler is not run *)
ValidationPipeReject(r) ==
  /\ rq[r].pc = "pipe"
  /\ Validate(rq[r].body) # <<>>
  /\ rq' = [rq EXCEPT ![r].pc = "done",
                      ![r].errors = Validate(rq[r].body),
                      ![r].response = BadRequestException(Validate(rq[r].body))]
  /\ UNCHANGED <<orders, currentId, now>>
  /\ UNCHANGED uvars

(* ValidationPipe.transform finds none: the body is passed to the handler *)
ValidationPipeAccept(r) ==
  /\ rq[r].pc = "pipe"
  /\ Validate(rq[r].body) = <<>>
  /\ rq' = [rq EXCEPT ![r].pc = "handler"]
  /\ UNCHANGED <<orders, currentId, now>>
  /\ UNCHANGED uvars

(* OrdersController.createOrder up to its await: the whole body of         *)
(* OrdersService.createOrder runs without suspending                        *)
createOrder(r) ==
  /\ rq[r].pc = "handler"
  /\ \E t \in now..MaxClock :
       LET order == NewOrder(rq[r].body, NextId(currentId), t)
       IN  /\ now' = t
           /\ currentId' = NextId(currentId)
           /\ orders' = Push(orders, order)
           /\ rq' = [rq EXCEPT ![r].pc = "await", ![r].order = order]
  /\ UNCHANGED uvars

(* OrdersController.createOrder after its await *)
Respond(r) ==
  /\ rq[r].pc = "await"
  /\ rq' = [rq EXCEPT ![r].pc = "done", ![r].response = Created(rq[r].order)]
  /\ UNCHANGED <<orders, currentId, now>>
  /\ UNCHANGED uvars

Handle(r) ==
  \/ ValidationPipeReject(r)
  \/ ValidationPipeAccept(r)
  \/ createOrder(r)
  \/ Respond(r)

ONext == \E r \in Slots : (\E b \in ClientBodies : Receive(r, b)) \/ Handle(r)

(* concurrent clients *)
SpecOrders == OInit /\ [][ONext]_vars

ONextOne == \E r \in Slots : Handle(r)

(* one request with any body *)
SpecCreate == OInitOne /\ [][ONextOne]_vars

----------------------------------------------------------------------------
(* Properties of the user-profile-api *)

(* export class UserProfileDto : the declared field order *)
UserProfileDtoFields == <<"id", "name", "email", "age", "preferences">>

IndexIn(s, x) == CHOOSE i \in 1..Len(s) : s[i] = x /\ \A j \in 1..(i - 1) : s[j] # x

ServiceDone == upc = "done" /\ req.via = "service"

HttpDone == upc = "done" /\ req.via = "http"

Projected == ServiceDone /\ resp.status = 200 /\ Len(req.fields) > 0

TheUser == users[FindIndex(users, req.id)]

(* C2 as stated: for an existing record and a non-empty requested list, the *)
(* fields of findOne's result appear in the declared field order of the     *)
(* record type (id, name, email, age, preferences), not in request order.   *)
C2_DeclaredOrder ==
  Projected =>
    LET keys == OwnKeys(resp.body)
    IN  \A i, j \in 1..Len(keys) :
          (i < j /\ keys[i] \in Range(UserProfileDtoFields)
                 /\ keys[j] \in Range(UserProfileDtoFields))
            => IndexIn(UserProfileDtoFields, keys[i]) < IndexIn(UserProfileDtoFields, keys[j])

(* C2 amended: for an existing record and a non-empty requested list, the   *)
(* fields of findOne's result appear in the order of their first occurrence *)
(* in the requested list.                                                   *)
C2_RequestOrder ==
  Projected =>
    LET keys == OwnKeys(resp.body)
    IN  /\ Range(keys) \subseteq Range(req.fields)
        /\ \A i, j \in 1..Len(keys) :
             i < j => IndexIn(req.fields, keys[i]) < IndexIn(req.fields, keys[j])

C2_Witness ==
  /\ Projected
  /\ req.fields = <<"email", "name", "email">>
  /\ OwnKeys(resp.body) = <<"email", "name">>

(* C3: for a request through getProfile for an existing id with a non-empty *)
(* field-selector string, the response is not an error and contains only    *)
(* fields that are both named in the selector and declared on the record    *)
(* type.                                                                    *)
C3_OnlyRequestedFields ==
  (/\ HttpDone
   /\ IsNumeric(req.idParam)
   /\ FindIndex(users, ParseInt(req.idParam)) # 0
   /\ "sel" \in DOMAIN req.query
   /\ Len(req.query.sel) > 0)
  => /\ resp.status = 200
     /\ Range(OwnKeys(resp.body))
          \subseteq (Range(Split(req.query.sel)) \cap Range(UserProfileDtoFields))

(* C4: for an existing record, findOne with an empty requested list returns *)
(* the full record, and with a requested list made only of names that are   *)
(* not fields of the record returns a result with zero fields; neither case *)
(* is an error.                                                             *)
C4_FullOrEmpty ==
  (ServiceDone /\ FindIndex(users, req.id) # 0) =>
    /\ Len(req.fields) = 0 => (resp.status = 200 /\ resp.body = TheUser)
    /\ (/\ Len(req.fields) > 0
        /\ \A i \in 1..Len(req.fields) : ~HasOwn(TheUser, req.fields[i]))
       => (resp.status = 200 /\ resp.body = <<>>)

(* C7: findOne with an id that matches no stored record signals not-found   *)
(* carrying exactly the requested id, with an id that matches it returns    *)
(* that record's data, and in both cases the stored records are unchanged.  *)
C7_LookupOrNotFound ==
  /\ users = UsersInit
  /\ ServiceDone =>
       IF \E i \in 1..Len(users) : Get(users[i], "id") = Num(req.id)
         THEN /\ resp.status = 200
              /\ \A k \in Range(OwnKeys(resp.body)) :
                   Get(resp.body, k) = Get(TheUser, k)
              /\ Get(TheUser, "id") = Num(req.id)
         ELSE /\ resp.status = 404
              /\ resp.message = "ID: " \o ToString(req.id) \o " no user ga mitsukarimasen"

C7_Witness ==
  /\ ServiceDone /\ req.id = 999 /\ resp.status = 404
  /\ Len(users) = 1 /\ Get(users[1], "id") = Num(1)

(* C10: for an existing record the field-to-value content of findOne's      *)
(* result depends only on the set of requested names: every requested name  *)
(* the record has appears exactly once with the record's value, whatever    *)
(* the order and the repetitions of the requested list.                     *)
C10_SetDetermined ==
  Projected =>
    LET keys == OwnKeys(resp.body)
    IN  /\ \A i, j \in 1..Len(keys) : keys[i] = keys[j] => i = j
        /\ Range(keys) = {f \in Range(req.fields) : In(f, TheUser)}
        /\ \A i \in 1..Len(keys) : resp.body[i][2] = Get(TheUser, keys[i])

C10_Witness ==
  /\ Projected
  /\ req.fields = <<"name", "email", "name">>
  /\ Len(resp.body) = 2

----------------------------------------------------------------------------
(* Properties of the order-api *)

Invoked(r) == rq[r].pc = "await" \/ (rq[r].pc = "done" /\ rq[r].response.status = 201)

Rejected(r) == rq[r].pc = "done" /\ rq[r].response.status = 400

OrderKeys == {"id", "products", "quantity", "shipping_address", "total_amount", "created_at"}

(* the rule of each field, as the claims state it *)
FieldBad(f, v) ==
  CASE f = "products" -> ~("arr" \in DOMAIN v /\ Len(v.arr) >= 1)
    [] f = "quantity" -> ~("num" \in DOMAIN v /\ v.num >= 1)
    [] f = "shipping_address" -> ~("str" \in DOMAIN v)

DtoFields == {"products", "quantity", "shipping_address"}

(* C1: the ids of the created records are pairwise distinct and strictly    *)
(* increasing in the order createOrder assigned them, however the requests  *)
(* interleave.                                                              *)
C1_IdsIncreasing ==
  /\ \A i, j \in 1..Len(orders) : i < j => orders[i].id < orders[j].id
  /\ \A r, s \in Slots :
       (Invoked(r) /\ Invoked(s) /\ r # s) => rq[r].order.id # rq[s].order.id
  /\ \A r \in Slots : Invoked(r) => rq[r].order.id \in 1..currentId

C1_Witness ==
  /\ Len(orders) = 3
  /\ \E r, s \in Slots :
       /\ rq[r].pc = "await" /\ rq[s].pc = "await" /\ r < s
       /\ rq[r].order.id > rq[s].order.id

(* C5, state part: every record an earlier createOrder returned is held by  *)
(* the store exactly once, at its id, with the field values it was returned *)
(* with.                                                                    *)
C5_Held ==
  \A r \in Slots :
    Invoked(r) =>
      /\ Cardinality({i \in 1..Len(orders) : orders[i].id = rq[r].order.id}) = 1
      /\ \A i \in 1..Len(orders) :
           orders[i].id = rq[r].order.id => orders[i] = rq[r].order

(* C5, step part: the record sequence only grows at its end and the id     *)
(* counter never decreases.                                                 *)
C5_Grows ==
  /\ Len(orders') >= Len(orders)
  /\ SubSeq(orders', 1, Len(orders)) = orders
  /\ currentId' >= currentId

(* C5: after any sequence of createOrder calls every returned record is     *)
(* still held exactly once with its id and field values, the record         *)
(* sequence never shrinks and the id counter never decreases.               *)
C5_ReturnedStaysHeld == [](C5_Held) /\ [][C5_Grows]_vars

C5_Witness ==
  /\ Len(orders) = 3
  /\ \E r \in Slots :
       /\ rq[r].pc = "done" /\ rq[r].response.status = 201
       /\ rq[r].order.id = 1 /\ orders[1] = rq[r].order

(* C6: a request whose body fails validation never reaches createOrder and  *)
(* leaves the store as it was: records and ids exist only for the requests  *)
(* that passed validation, and a rejected request holds no record.          *)
C6_RejectedLeavesStore ==
  /\ \A r \in Slots :
       (rq[r].pc # "idle" /\ \E f \in DtoFields : FieldBad(f, rq[r].body[f]))
         => /\ rq[r].pc \in {"pipe", "done"}
            /\ rq[r].order = None
            /\ rq[r].pc = "done" => rq[r].response.status = 400
  /\ currentId = Cardinality({r \in Slots : Invoked(r)})
  /\ Len(orders) = Cardinality({r \in Slots : Invoked(r)})

C6_Witness ==
  /\ \E r \in Slots : Rejected(r) /\ rq[r].order = None
  /\ \E r \in Slots : Invoked(r)
  /\ currentId = 1 /\ Len(orders) = 1

(* C8: for a validated payload createOrder returns a record whose id is the *)
(* previous counter value plus one, whose products, quantity and            *)
(* shipping_address are the input's, whose total is quantity x 1000, and    *)
(* which has no other caller-supplied field.                                *)
C8_CreatedRecord ==
  [][\A r \in Slots :
       (rq[r].pc = "handler" /\ rq'[r].pc = "await") =>
         LET o == rq'[r].order
             dto == rq[r].body
         IN  /\ o.id = currentId + 1
             /\ o.products = dto.products
             /\ o.quantity = dto.quantity
             /\ o.shipping_address = dto.shipping_address
             /\ o.total_amount = [num |-> dto.quantity.num * 1000]
             /\ DOMAIN o = OrderKeys
             /\ orders'[Len(orders')] = o]_vars

C8_Witness ==
  /\ rq[1].pc = "await" /\ rq[2].pc = "await"
  /\ rq[1].body = Body(Arr(<<Num(1), Num(2), Num(3)>>), Num(2), Str("X"), Undefined)
  /\ rq[1].order.id = 1
  /\ rq[1].order.total_amount = Num(2000)
  /\ rq[2].body.extra = Str("admin")
  /\ rq[2].order.id = 2
  /\ rq[2].order.total_amount = Num(1000)

(* C9: validation checks every field and reports every violation at once:   *)
(* the list has exactly one entry for a field if that field is missing or    *)
(* fails its rule and none otherwise, and validation succeeds exactly when  *)
(* the list is empty.                                                       *)
C9_AllViolations ==
  \A r \in Slots :
    rq[r].pc \in {"handler", "await", "done"} =>
      /\ \A f \in DtoFields :
           Cardinality({i \in 1..Len(rq[r].errors) : rq[r].errors[i].property = f})
             = IF FieldBad(f, rq[r].body[f]) THEN 1 ELSE 0
      /\ \A i \in 1..Len(rq[r].errors) : rq[r].errors[i].property \in DtoFields
      /\ (rq[r].errors = <<>>) <=> ~Rejected(r)

C9_Witness ==
  /\ Rejected(1)
  /\ rq[1].body = Body(Arr(<<>>), Num(0), Undefined, Undefined)
  /\ Len(rq[1].errors) = 3

====
